---- MODULE Spec2Model ----
(***************************************************************************)
(* Model of avaya_html_report_cleaner.py: the command-line entry point and *)
(* main(), which rebuilds a table from absolutely positioned <label>       *)
(* elements.  Python strings are sequences of one-character strings; the   *)
(* non-breaking space U+00A0 is the symbol NBSP.                           *)
(***************************************************************************)
EXTENDS Integers, Sequences, FiniteSets, TLC

\* ------------------------------------------------------------ characters
NBSP == "nbsp"

BACKSLASH == "backslash"

BACKTICK == "backtick"

UpperSeq == <<"A","B","C","D","E","F","G","H","I","J","K","L","M",
              "N","O","P","Q","R","S","T","U","V","W","X","Y","Z">>

LowerSeq == <<"a","b","c","d","e","f","g","h","i","j","k","l","m",
              "n","o","p","q","r","s","t","u","v","w","x","y","z">>

DigitSeq == <<"0","1","2","3","4","5","6","7","8","9">>

SeqRange(s) == {s[i] : i \in 1..Len(s)}

\* [a-zA-Z]
Alpha == SeqRange(UpperSeq) \cup SeqRange(LowerSeq)

\* [0-9]
Digits == SeqRange(DigitSeq)

\* what str.strip() removes and what \s matches in a str pattern
Whitespace == {" ", "\t", "\n", "\r", NBSP}

\* [A-z\s]: the range A-z also holds the six characters between Z and a
LabelClass == Alpha \cup {"[", BACKSLASH, "]", "^", "_", BACKTICK} \cup Whitespace

DigitVal(c) == (CHOOSE i \in 1..10 : DigitSeq[i] = c) - 1

Lower(c) == IF c \in SeqRange(UpperSeq)
            THEN LowerSeq[CHOOSE i \in 1..26 : UpperSeq[i] = c]
            ELSE c

\* ------------------------------------------------------ Python built-ins
\* the values None and numpy.nan, kept apart from every string
NoneVal == <<"None">>

NaN == <<"NaN">>

\* str.strip()
Strip(s) ==
  LET keep == {i \in 1..Len(s) : s[i] \notin Whitespace}
  IN IF keep = {} THEN <<>>
     ELSE SubSeq(s, CHOOSE i \in keep : \A j \in keep : i <= j,
                    CHOOSE i \in keep : \A j \in keep : i >= j)

\* str.replace(a, b) for one-character a
ReplaceChar(s, a, b) == [i \in 1..Len(s) |-> IF s[i] = a THEN b ELSE s[i]]

\* whether sep occurs in s at position i
OccursAt(s, sep, i) ==
  /\ i + Len(sep) - 1 <= Len(s)
  /\ \A j \in 1..Len(sep) : s[i + j - 1] = sep[j]

\* str.split(sep=sep): the pieces between the occurrences of sep.  The
\* separators used here ("; ", ":", "px") cannot overlap themselves, so
\* every occurrence is one the left-to-right scan takes.
Split(s, sep) ==
  LET at == {i \in 1..Len(s) : OccursAt(s, sep, i)}
      cut(n) == IF n = 0 THEN 1 - Len(sep)
                ELSE IF n > Cardinality(at) THEN Len(s) + 1
                ELSE CHOOSE i \in at : Cardinality({j \in at : j < i}) = n - 1
  IN [n \in 1..(Cardinality(at) + 1) |->
        SubSeq(s, cut(n - 1) + Len(sep), cut(n) - 1)]

\* str.replace(old, "") for a string old
RECURSIVE Join(_, _)
Join(parts, sep) ==
  IF Len(parts) = 0 THEN <<>>
  ELSE IF Len(parts) = 1 THEN parts[1]
  ELSE parts[1] \o sep \o Join(Tail(parts), sep)

Remove(s, old) == Join(Split(s, old), <<>>)

\* re.split on the pattern of one or more pipes: split on every run of pipes
RECURSIVE ReSplitFrom(_, _, _)
ReSplitFrom(s, start, i) ==
  IF i > Len(s) THEN <<SubSeq(s, start, Len(s))>>
  ELSE IF s[i] = "|"
       THEN LET rest == {j \in i..Len(s) : s[j] # "|"}
                nxt == IF rest = {} THEN Len(s) + 1
                       ELSE CHOOSE j \in rest : \A k \in rest : j <= k
            IN <<SubSeq(s, start, i - 1)>> \o ReSplitFrom(s, nxt, nxt)
       ELSE ReSplitFrom(s, start, i + 1)

ReSplitPipes(s) == ReSplitFrom(s, 1, 1)

\* re.sub of the pattern ' +' by ' ': every run of spaces becomes one space
CollapseSpaces(s) ==
  SelectSeq([i \in 1..Len(s) |->
               IF s[i] = " " /\ i > 1 /\ s[i - 1] = " " THEN "" ELSE s[i]],
            LAMBDA c : c # "")

\* Series.replace of the pattern ' +' by the empty string, on one string
RemoveSpaces(s) == SelectSeq(s, LAMBDA c : c # " ")

\* re.match of the pattern [A-z\s]+:(?![0-9]) at the start of s
\* the class excludes the colon, so the only candidate is the longest prefix
LabelMatch(s) ==
  LET out == {i \in 1..Len(s) : s[i] \notin LabelClass}
      n == IF out = {} THEN Len(s) + 1
           ELSE CHOOSE i \in out : \A j \in out : i <= j
  IN /\ n >= 2
     /\ n <= Len(s)
     /\ s[n] = ":"
     /\ (n + 1 <= Len(s) => s[n + 1] \notin Digits)

\* Series.str.contains("[a-zA-Z]") on one string
ContainsLetter(s) == \E i \in 1..Len(s) : s[i] \in Alpha

\* re.search of the pattern --+ anywhere in s
SearchDashes(s) == \E i \in 1..(Len(s) - 1) : s[i] = "-" /\ s[i + 1] = "-"

\* int(s): surrounding whitespace and one sign allowed, then digits only
IntBody(s) ==
  LET t == Strip(s)
  IN IF Len(t) > 0 /\ t[1] \in {"+", "-"} THEN Tail(t) ELSE t

IsInt(s) ==
  /\ s # NoneVal
  /\ Len(IntBody(s)) > 0
  /\ \A i \in 1..Len(IntBody(s)) : IntBody(s)[i] \in Digits

RECURSIVE DigitsVal(_)
DigitsVal(d) ==
  IF Len(d) = 0 THEN 0
  ELSE 10 * DigitsVal(SubSeq(d, 1, Len(d) - 1)) + DigitVal(d[Len(d)])

IntOf(s) ==
  LET t == Strip(s)
  IN IF Len(t) > 0 /\ t[1] = "-" THEN 0 - DigitsVal(IntBody(s))
     ELSE DigitsVal(IntBody(s))

\* ------------------------------------------------- datetime.strptime
\* the words of s between its runs of whitespace
Words(s) ==
  LET starts == {i \in 1..Len(s) :
                   s[i] \notin Whitespace /\ (i = 1 \/ s[i - 1] \in Whitespace)}
      ends == {i \in 1..Len(s) :
                 s[i] \notin Whitespace /\ (i = Len(s) \/ s[i + 1] \in Whitespace)}
      nth(S, n) == CHOOSE i \in S : Cardinality({j \in S : j < i}) = n - 1
  IN [n \in 1..Cardinality(starts) |-> SubSeq(s, nth(starts, n), nth(ends, n))]

LowerStr(s) == [i \in 1..Len(s) |-> Lower(s[i])]

AllDigits(s) == \A i \in 1..Len(s) : s[i] \in Digits

WeekdayNames == {<<"m","o","n">>, <<"t","u","e">>, <<"w","e","d">>,
                 <<"t","h","u">>, <<"f","r","i">>, <<"s","a","t">>,
                 <<"s","u","n">>}

MonthNames == <<<<"j","a","n">>, <<"f","e","b">>, <<"m","a","r">>,
                <<"a","p","r">>, <<"m","a","y">>, <<"j","u","n">>,
                <<"j","u","l">>, <<"a","u","g">>, <<"s","e","p">>,
                <<"o","c","t">>, <<"n","o","v">>, <<"d","e","c">>>>

\* %I: 1[0-2]|0[1-9]|[1-9]
IsHour12(w) ==
  /\ AllDigits(w)
  /\ Len(w) \in {1, 2}
  /\ DigitsVal(w) \in 1..12

\* %M: [0-5]\d|\d
IsMinute(w) ==
  /\ AllDigits(w)
  /\ Len(w) \in {1, 2}
  /\ DigitsVal(w) \in 0..59

\* %d: 3[0-1]|[1-2]\d|0[1-9]|[1-9]
IsDay(w) ==
  /\ AllDigits(w)
  /\ Len(w) \in {1, 2}
  /\ DigitsVal(w) \in 1..31

\* %Y: \d\d\d\d
IsYear(w) == AllDigits(w) /\ Len(w) = 4

IsLeap(y) == (y % 4 = 0 /\ y % 100 # 0) \/ y % 400 = 0

DaysInMonth(y, m) ==
  IF m = 2 THEN (IF IsLeap(y) THEN 29 ELSE 28)
  ELSE IF m \in {4, 6, 9, 11} THEN 30 ELSE 31

TwoDigits(n) == <<DigitSeq[(n \div 10) + 1], DigitSeq[(n % 10) + 1]>>

\* whether s has the form of "%I:%M %p %a %b %d, %Y" and names a real date
StrptimeOk(s) ==
  LET w == Words(s)
      hm == IF Len(w) >= 1 THEN Split(w[1], <<":">>) ELSE <<>>
  IN /\ s # NoneVal
     /\ Len(s) > 0
     /\ s[1] \notin Whitespace
     /\ s[Len(s)] \notin Whitespace
     /\ Len(w) = 6
     /\ Len(hm) = 2
     /\ IsHour12(hm[1])
     /\ IsMinute(hm[2])
     /\ LowerStr(w[2]) \in {<<"a","m">>, <<"p","m">>}
     /\ LowerStr(w[3]) \in WeekdayNames
     /\ LowerStr(w[4]) \in SeqRange(MonthNames)
     /\ Len(w[5]) >= 2
     /\ w[5][Len(w[5])] = ","
     /\ IsDay(SubSeq(w[5], 1, Len(w[5]) - 1))
     /\ IsYear(w[6])
     /\ DigitsVal(w[6]) >= 1
     /\ DigitsVal(SubSeq(w[5], 1, Len(w[5]) - 1))
          <= DaysInMonth(DigitsVal(w[6]),
                         CHOOSE m \in 1..12 : MonthNames[m] = LowerStr(w[4]))

\* the datetime strptime returns, written year-month-day T hour:minute
Strptime(s) ==
  LET w == Words(s)
      hm == Split(w[1], <<":">>)
      h12 == DigitsVal(hm[1])
      pm == LowerStr(w[2]) = <<"p","m">>
      h24 == IF pm THEN (IF h12 = 12 THEN 12 ELSE h12 + 12)
             ELSE (IF h12 = 12 THEN 0 ELSE h12)
      mon == CHOOSE m \in 1..12 : MonthNames[m] = LowerStr(w[4])
      day == DigitsVal(SubSeq(w[5], 1, Len(w[5]) - 1))
  IN <<"datetime">> \o w[6] \o <<"-">> \o TwoDigits(mon) \o <<"-">>
     \o TwoDigits(day) \o <<"T">> \o TwoDigits(h24) \o <<":">>
     \o TwoDigits(DigitsVal(hm[2]))

\* -------------------------------------------------------- style decoding
\* a Python dict as the sequence of its items in insertion order
DictHas(d, key) == \E i \in 1..Len(d) : d[i].k = key

DictGet(d, key) == d[CHOOSE i \in 1..Len(d) : d[i].k = key].v

DictSet(d, key, val) ==
  IF DictHas(d, key)
  THEN [i \in 1..Len(d) |-> IF d[i].k = key THEN [k |-> key, v |-> val] ELSE d[i]]
  ELSE Append(d, [k |-> key, v |-> val])

DictKeys(d) == [i \in 1..Len(d) |-> d[i].k]

\* css_to_dict: the dict, and whether elet[1] raised IndexError on a
\* declaration without a colon
RECURSIVE CssItems(_, _)
CssItems(css_list, out_dict) ==
  IF Len(css_list) = 0 THEN [d |-> out_dict, err |-> FALSE]
  ELSE LET elet == Split(css_list[1], <<":">>)
       IN IF elet = <<<<>>>> THEN CssItems(Tail(css_list), out_dict)
          ELSE IF Len(elet) < 2 THEN [d |-> out_dict, err |-> TRUE]
          ELSE CssItems(Tail(css_list), DictSet(out_dict, elet[1], elet[2]))

css_to_dict(css_str) == CssItems(Split(css_str, <<";", " ">>), <<>>)

PX == <<"p", "x">>

\* get_coordinates: the exception it raises, or "" when it returns
CoordinateError(css_dict) ==
  IF ~DictHas(css_dict, <<"t","o","p">>) THEN "KeyError: 'top'"
  ELSE IF ~IsInt(Remove(DictGet(css_dict, <<"t","o","p">>), PX))
  THEN "ValueError: invalid literal for int()"
  ELSE IF ~DictHas(css_dict, <<"l","e","f","t">>) THEN "KeyError: 'left'"
  ELSE IF ~IsInt(Remove(DictGet(css_dict, <<"l","e","f","t">>), PX))
  THEN "ValueError: invalid literal for int()"
  ELSE ""

get_coordinates(css_dict) ==
  <<IntOf(Remove(DictGet(css_dict, <<"t","o","p">>), PX)),
    IntOf(Remove(DictGet(css_dict, <<"l","e","f","t">>), PX))>>

get_index(css_str) == get_coordinates(css_to_dict(css_str).d)

BoldFont == <<"b","o","l","d"," ","1","2","p","x"," ","v","e","r","d","a","n","a">>

\* ------------------------------------------------------------ the state
VARIABLES
  pc,                \* where the process is
  Label_elets,       \* the <label> elements of the document, in document order
  useSQL,            \* the --useSQL flag
  pos,               \* the label the loop of line 98 is at
  indexed_data,      \* [coord, text] of every label with a string
  _col_titles,       \* the token list of every bold label
  final_col_titles,
  matrix_dict,       \* row index -> its [coord, text] items, sorted by column
  sorted_rows_dict,  \* row index -> its texts
  metadata_dict,
  df1,               \* the final frame: its columns and its rows
  exported,          \* "none", "csv" or "sql"
  exc,               \* the exception raised in main, "" when none
  log,               \* the levels of the records written to the log file
  exit_status        \* the status the process ended with, -1 while it runs

vars == <<pc, Label_elets, useSQL, pos, indexed_data, _col_titles,
          final_col_titles, matrix_dict, sorted_rows_dict, metadata_dict,
          df1, exported, exc, log, exit_status>>

\* ------------------------------------------------- lines 96-103: the labels
\* the text line 103 stores: stripped, non-breaking spaces as spaces
LabelText(string) == ReplaceChar(Strip(string), NBSP, " ")

\* the token list line 102 stores: non-breaking spaces as pipes, split on pipes
TitleTokens(string) == ReSplitPipes(ReplaceChar(Strip(string), NBSP, "|"))

FONT == <<"f", "o", "n", "t">>

\* a mutation of ReadStyle: coordinates that cannot be read default to (0, 0)
ReadStyleLenient(css_str) ==
  LET css == css_to_dict(css_str)
      fontErr == IF css.err THEN "IndexError: list index out of range"
                 ELSE IF ~DictHas(css.d, FONT) THEN "KeyError: 'font'"
                 ELSE ""
  IN [err |-> fontErr,
      bold |-> fontErr = "" /\ DictGet(css.d, FONT) = BoldFont,
      coord |-> IF CoordinateError(css.d) = "" THEN get_coordinates(css.d)
                ELSE <<0, 0>>]

\* lines 101-103 on one label with a string: the exception raised ("" when
\* none), whether line 101 found the bold font, and the coordinates
ReadStyle(css_str) ==
  LET css == css_to_dict(css_str)
      fontErr == IF css.err THEN "IndexError: list index out of range"
                 ELSE IF ~DictHas(css.d, FONT) THEN "KeyError: 'font'"
                 ELSE ""
      err == IF fontErr # "" THEN fontErr ELSE CoordinateError(css.d)
  IN [err |-> err,
      bold |-> fontErr = "" /\ DictGet(css.d, FONT) = BoldFont,
      coord |-> IF err = "" THEN get_coordinates(css.d) ELSE <<>>]

\* ---------------------------------------------- lines 108-123: the titles
Max(S) == CHOOSE x \in S : \A y \in S : y <= x

Min(S) == CHOOSE x \in S : \A y \in S : x <= y

\* the loop of lines 110-117: the first two full-length lists
RECURSIVE ColTitlesFrom(_, _, _)
ColTitlesFrom(titles, maxlen, col_titles) ==
  IF Len(titles) = 0 THEN col_titles
  ELSE IF titles[1] = <<<<>>>> THEN ColTitlesFrom(Tail(titles), maxlen, col_titles)
  ELSE IF Len(titles[1]) < maxlen THEN ColTitlesFrom(Tail(titles), maxlen, col_titles)
  ELSE IF Len(col_titles) = 2 THEN col_titles
  ELSE ColTitlesFrom(Tail(titles), maxlen, Append(col_titles, titles[1]))

\* a mutation of ColTitles: the loop does not stop at two lists
ColTitlesAll(titles) ==
  SelectSeq(titles,
            LAMBDA t : /\ t # <<<<>>>>
                       /\ Len(t) = Max({Len(titles[i]) : i \in 1..Len(titles)}))

ColTitles(titles) ==
  ColTitlesFrom(titles, Max({Len(titles[i]) : i \in 1..Len(titles)}), <<>>)

\* zip(*col_titles), each tuple joined with one space
ZipJoin(col_titles) ==
  IF Len(col_titles) = 0 THEN <<>>
  ELSE [k \in 1..Min({Len(col_titles[j]) : j \in 1..Len(col_titles)}) |->
          Join([j \in 1..Len(col_titles) |-> col_titles[j][k]], <<" ">>)]

TIME == <<"T","I","M","E">>

FinalColTitles(titles) == <<TIME>> \o ZipJoin(ColTitles(titles))

\* ------------------------------------------------ lines 127-157: the grid
RECURSIVE SortedSeq(_)
SortedSeq(S) ==
  IF S = {} THEN <<>> ELSE <<Min(S)>> \o SortedSeq(S \ {Min(S)})

\* a mutation of RowIndicesList: labels with a blank text give no row
RowIndicesOfText(data) ==
  SortedSeq({data[i].coord[1] : i \in {j \in 1..Len(data) : data[j].text # <<>>}})

\* lines 128-134
RowIndicesList(data) == SortedSeq({data[i].coord[1] : i \in 1..Len(data)})

\* list.sort(key = column): stable
RECURSIVE SortByColumn(_)
SortByColumn(items) ==
  IF Len(items) <= 1 THEN items
  ELSE LET rest == SortByColumn(SubSeq(items, 1, Len(items) - 1))
           x == items[Len(items)]
           n == Cardinality({i \in 1..Len(rest) : rest[i].coord[2] <= x.coord[2]})
       IN SubSeq(rest, 1, n) \o <<x>> \o SubSeq(rest, n + 1, Len(rest))

\* lines 140-145, then the sort of line 154
MatrixDict(data) ==
  LET keys == RowIndicesList(data)
  IN [r \in 1..Len(keys) |->
        [k |-> keys[r],
         v |-> SortByColumn(SelectSeq(data, LAMBDA d : d.coord[1] = keys[r]))]]

\* lines 151-157
SortedRowsDict(matrix) ==
  [r \in 1..Len(matrix) |->
     [k |-> matrix[r].k,
      v |-> [c \in 1..Len(matrix[r].v) |-> matrix[r].v[c].text]]]

\* -------------------------------------------- lines 159-168: the metadata
FirstIndex(val, x) == Min({j \in 1..Len(val) : val[j] = x})

\* lines 163-164: a one-cell row
SingleCellDatum(cell) ==
  LET datum == Split(cell, <<":">>)
  IN [k |-> Strip(datum[1]), v |-> Strip(datum[2])]

\* lines 166-168 from cell j on: the dict, and whether val[...+1] raised
RECURSIVE MetaCells(_, _, _)
MetaCells(val, j, d) ==
  IF j > Len(val) THEN [d |-> d, err |-> FALSE]
  ELSE IF ~LabelMatch(val[j]) THEN MetaCells(val, j + 1, d)
  ELSE IF FirstIndex(val, val[j]) + 1 > Len(val) THEN [d |-> d, err |-> TRUE]
  ELSE MetaCells(val, j + 1,
                 DictSet(d, CollapseSpaces(SubSeq(val[j], 1, Len(val[j]) - 1)),
                         CollapseSpaces(val[FirstIndex(val, val[j]) + 1])))

\* the body of the loop of line 160 on one row
MetaRow(val, d) ==
  IF Len(val) = 1
  THEN IF LabelMatch(val[1])
       THEN [d |-> DictSet(d, SingleCellDatum(val[1]).k, SingleCellDatum(val[1]).v),
             err |-> FALSE]
       ELSE [d |-> d, err |-> FALSE]
  ELSE MetaCells(val, 1, d)

RECURSIVE MetaRows(_, _, _)
MetaRows(rows, r, d) ==
  IF r > Len(rows) THEN [d |-> d, err |-> FALSE]
  ELSE LET one == MetaRow(rows[r].v, d)
       IN IF one.err THEN one ELSE MetaRows(rows, r + 1, one.d)

DATE == <<"D","a","t","e">>

\* ------------------------------------------- lines 177-192: the data frame
\* DataFrame.from_dict(orient='index'): short rows are padded with None.
\* src is the index label of the row, the row coordinate it came from.
FromDict(rows) ==
  LET width == Max({Len(rows[r].v) : r \in 1..Len(rows)})
  IN [r \in 1..Len(rows) |->
        [src |-> rows[r].k,
         cells |-> [c \in 1..width |->
                      IF c <= Len(rows[r].v) THEN rows[r].v[c] ELSE NoneVal]]]

\* a mutation of DropLetterRows: no row is dropped
DropNoRows(df) == df

\* line 181: the rows whose cell 0 holds no letter
DropLetterRows(df) == SelectSeq(df, LAMBDA row : ~ContainsLetter(row.cells[1]))

\* line 183
BlankToNaN(cell) == IF cell = <<>> THEN NaN ELSE cell

\* line 184: with a value that is no string, replace(regex=True) puts the
\* value in place of every cell the pattern is found in
DashesToNaN(cell) == IF cell # NaN /\ SearchDashes(cell) THEN NaN ELSE cell

\* lines 183-186 on column 0
CleanFirstCell(df) ==
  LET marked == [r \in 1..Len(df) |->
                   [df[r] EXCEPT !.cells[1] = DashesToNaN(BlankToNaN(@))]]
      kept == SelectSeq(marked, LAMBDA row : row.cells[1] # NaN)
  IN [r \in 1..Len(kept) |-> [kept[r] EXCEPT !.cells[1] = RemoveSpaces(@)]]

\* a mutation of ColumnsFit: the assignment of line 187 never raises
ColumnsFitAny(df, names) == TRUE

\* line 187: assigning columns of another length raises ValueError
ColumnsFit(df, names) ==
  \A r \in 1..Len(df) : Len(df[r].cells) = Len(names)

\* lines 191-192: insert raises ValueError on a column that is already there
RECURSIVE InsertAll(_, _)
InsertAll(frame, items) ==
  IF Len(items) = 0 \/ frame.err THEN frame
  ELSE IF \E c \in 1..Len(frame.columns) : frame.columns[c] = items[1].k
       THEN [frame EXCEPT !.err = TRUE]
       ELSE InsertAll([columns |-> <<items[1].k>> \o frame.columns,
                       rows |-> [r \in 1..Len(frame.rows) |->
                                   [frame.rows[r] EXCEPT !.cells = <<items[1].v>> \o @]],
                       err |-> FALSE],
                      Tail(items))

EmptyFrame == [columns |-> <<>>, rows |-> <<>>]

\* ------------------------------------------------------------ the actions
Raise(e) == /\ exc' = e
            /\ pc' = "raised"

\* lines 254-265: the arguments are parsed, the call is logged, main is entered
CliStart ==
  /\ pc = "cli"
  /\ log' = Append(log, "INFO")
  /\ pc' = "read"
  /\ UNCHANGED <<Label_elets, useSQL, pos, indexed_data, _col_titles,
                 final_col_titles, matrix_dict, sorted_rows_dict,
                 metadata_dict, df1, exported, exc, exit_status>>

\* lines 98-103: one turn of the loop over the labels
ReadLabel ==
  /\ pc = "read"
  /\ pos <= Len(Label_elets)
  /\ LET label == Label_elets[pos]
     IN IF label.string = NoneVal
        THEN /\ pos' = pos + 1
             /\ UNCHANGED <<pc, exc, indexed_data, _col_titles>>
        ELSE LET st == ReadStyle(label.style)
             IN /\ _col_titles' =
                     IF st.bold THEN Append(_col_titles, TitleTokens(label.string))
                     ELSE _col_titles
                /\ IF st.err # ""
                   THEN /\ Raise(st.err)
                        /\ UNCHANGED <<pos, indexed_data>>
                   ELSE /\ pos' = pos + 1
                        /\ indexed_data' =
                             Append(indexed_data,
                                    [coord |-> st.coord,
                                     text |-> LabelText(label.string)])
                        /\ UNCHANGED <<pc, exc>>
  /\ UNCHANGED <<Label_elets, useSQL, final_col_titles, matrix_dict,
                 sorted_rows_dict, metadata_dict, df1, exported, log,
                 exit_status>>

\* lines 108-123: max() of no title list raises ValueError
BuildTitles ==
  /\ pc = "read"
  /\ pos > Len(Label_elets)
  /\ IF Len(_col_titles) = 0
     THEN /\ Raise("ValueError: max() arg is an empty sequence")
          /\ UNCHANGED final_col_titles
     ELSE /\ final_col_titles' = FinalColTitles(_col_titles)
          /\ pc' = "grid"
          /\ UNCHANGED exc
  /\ UNCHANGED <<Label_elets, useSQL, pos, indexed_data, _col_titles,
                 matrix_dict, sorted_rows_dict, metadata_dict, df1, exported,
                 log, exit_status>>

\* lines 127-157
BuildGrid ==
  /\ pc = "grid"
  /\ matrix_dict' = MatrixDict(indexed_data)
  /\ sorted_rows_dict' = SortedRowsDict(matrix_dict')
  /\ pc' = "meta"
  /\ UNCHANGED <<Label_elets, useSQL, pos, indexed_data, _col_titles,
                 final_col_titles, metadata_dict, df1, exported, exc, log,
                 exit_status>>

\* lines 159-168: val[val.index(i)+1] past the end of the row raises IndexError
ExtractMetadata ==
  /\ pc = "meta"
  /\ LET got == MetaRows(sorted_rows_dict, 1, <<>>)
     IN /\ metadata_dict' = got.d
        /\ IF got.err
           THEN Raise("IndexError: list index out of range")
           ELSE pc' = "timestamp" /\ UNCHANGED exc
  /\ UNCHANGED <<Label_elets, useSQL, pos, indexed_data, _col_titles,
                 final_col_titles, matrix_dict, sorted_rows_dict, df1,
                 exported, log, exit_status>>

\* lines 171-173
FixTimestamp ==
  /\ pc = "timestamp"
  /\ IF ~DictHas(metadata_dict, DATE)
     THEN Raise("KeyError: 'Date'") /\ UNCHANGED metadata_dict
     ELSE IF ~StrptimeOk(DictGet(metadata_dict, DATE))
     THEN Raise("ValueError: time data does not match format")
          /\ UNCHANGED metadata_dict
     ELSE /\ metadata_dict' =
               DictSet(metadata_dict, DATE, Strptime(DictGet(metadata_dict, DATE)))
          /\ pc' = "frame"
          /\ UNCHANGED exc
  /\ UNCHANGED <<Label_elets, useSQL, pos, indexed_data, _col_titles,
                 final_col_titles, matrix_dict, sorted_rows_dict, df1,
                 exported, log, exit_status>>

\* lines 177-192
BuildFrame ==
  /\ pc = "frame"
  /\ LET cleaned == CleanFirstCell(DropLetterRows(FromDict(sorted_rows_dict)))
         fits == ColumnsFit(FromDict(sorted_rows_dict), final_col_titles)
         frame == InsertAll([columns |-> final_col_titles, rows |-> cleaned,
                             err |-> FALSE], metadata_dict)
     IN IF ~fits
        THEN Raise("ValueError: Length mismatch") /\ UNCHANGED df1
        ELSE IF frame.err
        THEN Raise("ValueError: cannot insert, already exists") /\ UNCHANGED df1
        ELSE /\ df1' = [columns |-> frame.columns, rows |-> frame.rows]
             /\ pc' = "export"
             /\ UNCHANGED exc
  /\ UNCHANGED <<Label_elets, useSQL, pos, indexed_data, _col_titles,
                 final_col_titles, matrix_dict, sorted_rows_dict,
                 metadata_dict, exported, log, exit_status>>

\* lines 199-213: the flat file, or the connection to the server, which is
\* outside the program and may be refused
Export ==
  /\ pc = "export"
  /\ IF ~useSQL
     THEN /\ exported' = "csv"
          /\ pc' = "returned"
          /\ UNCHANGED exc
     ELSE \E connected \in BOOLEAN :
            IF connected
            THEN /\ exported' = "sql"
                 /\ pc' = "returned"
                 /\ UNCHANGED exc
            ELSE /\ Raise("OperationalError")
                 /\ UNCHANGED exported
  /\ UNCHANGED <<Label_elets, useSQL, pos, indexed_data, _col_titles,
                 final_col_titles, matrix_dict, sorted_rows_dict,
                 metadata_dict, df1, log, exit_status>>

\* lines 267-268: the exception is logged and swallowed
CatchException ==
  /\ pc = "raised"
  /\ log' = Append(log, "CRITICAL")
  /\ pc' = "handled"
  /\ UNCHANGED <<Label_elets, useSQL, pos, indexed_data, _col_titles,
                 final_col_titles, matrix_dict, sorted_rows_dict,
                 metadata_dict, df1, exported, exc, exit_status>>

\* the status the interpreter ends with after the try statement of line 260
StatusAtEnd(raised) == 0

\* the end of the script: nothing follows the try statement
ProcessExit ==
  /\ pc \in {"returned", "handled"}
  /\ exit_status' = StatusAtEnd(exc # "")
  /\ pc' = "exited"
  /\ UNCHANGED <<Label_elets, useSQL, pos, indexed_data, _col_titles,
                 final_col_titles, matrix_dict, sorted_rows_dict,
                 metadata_dict, df1, exported, exc, log>>

Next ==
  \/ CliStart
  \/ ReadLabel
  \/ BuildTitles
  \/ BuildGrid
  \/ ExtractMetadata
  \/ FixTimestamp
  \/ BuildFrame
  \/ Export
  \/ CatchException
  \/ ProcessExit

\* ------------------------------------------------------------ the inputs
MaxFree == 2

MaxHeader == 3

NormalFont == <<"1", "2", "p", "x", " ", "v", "e", "r", "d", "a", "n", "a">>

\* "top:<top>px; left:<left>px; font:<font>"
Css(top, left, font) ==
  <<"t", "o", "p", ":">> \o top \o <<"p", "x", ";", " ", "l", "e", "f", "t", ":">>
  \o left \o <<"p", "x", ";", " ", "f", "o", "n", "t", ":">> \o font

Lab(top, left, font, string) ==
  [style |-> Css(top, left, font), string |-> string]

N0 == <<"0">>

N10 == <<"1", "0">>

N20 == <<"2", "0">>

N30 == <<"3", "0">>

N40 == <<"4", "0">>

N50 == <<"5", "0">>

N100 == <<"1", "0", "0">>

TStamp == <<"1", "0", ":", "0", "0", " ", "A", "M", " ", "M", "o", "n", " ", "J", "a", "n", " ", "0", "1", ",", " ", "2", "0", "2", "4">>

TDateLabel == <<"D", "a", "t", "e", ":">>

\* the texts of data cells
TTime == <<"9", ":", "1", "5">>

TEight == <<"8", ":", "0", "0">>

TSpaced == <<" ", "9", NBSP, "1", "5", " ">>

TJo == <<"J", "o">>

TDash1 == <<"-">>

TDash2 == <<"-", "-">>

TDashIn == <<"1", "-", "-", "2">>

TBlank == <<NBSP>>

\* the texts of metadata cells
TSkill == <<"S", "k", "i", "l", "l", ":">>

TSales == <<"S", "a", "l", "e", "s", " ", " ", "E", "a", "s", "t">>

TDateLine == <<"D", "a", "t", "e", ":", " ">> \o TStamp

TUnder == <<"_", ":", " ", "7">>

T12 == <<"1", "2">>

\* the texts of column titles
HAgent == <<"A", "g", "e", "n", "t">>

HName == <<"N", "a", "m", "e">>

HAgNm == <<"C", "a", "l", "l", "s", NBSP, "I", "n">>

HInOut == <<"A", "v", "g", NBSP, NBSP, "T", "i", "m", "e">>

SeqsUpTo(S, n) == UNION {[1..k -> S] : k \in 0..n}

\* a report with one title, its date row and a data row, and up to MaxFree
\* more data labels above that row
GridPool ==
  {Lab(N20, N0, NormalFont, t) : t \in {TTime, TJo, TDash1, TDash2, TDashIn, TBlank}}
  \cup {Lab(N30, N0, NormalFont, t) : t \in {TTime, TDash2, TBlank, TSpaced}}
  \cup {Lab(N20, N50, NormalFont, TJo), Lab(N30, N50, NormalFont, NoneVal)}

GridSkeleton ==
  <<Lab(N0, N50, BoldFont, HAgent),
    Lab(N10, N0, NormalFont, TDateLabel),
    Lab(N10, N50, NormalFont, TStamp),
    Lab(N40, N0, NormalFont, TEight)>>

GridDocs == {GridSkeleton \o free : free \in SeqsUpTo(GridPool, MaxFree)}

\* a report with a two-line title and a data row, and up to MaxFree labels
\* that may be metadata
MetaPool ==
  {Lab(N20, N50, NormalFont, t) : t \in {TSkill, TSales}}
  \cup {Lab(N20, N100, NormalFont, t) : t \in {TSkill, TSales, T12}}
  \cup {Lab(N30, N0, NormalFont, t) : t \in {TSkill, TDateLine, TUnder}}

MetaSkeleton ==
  <<Lab(N0, N50, BoldFont, HAgNm),
    Lab(N10, N0, NormalFont, TDateLabel),
    Lab(N10, N50, NormalFont, TStamp),
    Lab(N20, N0, NormalFont, T12)>>

MetaDocs == {MetaSkeleton \o free : free \in SeqsUpTo(MetaPool, MaxFree)}

\* a report with up to MaxHeader bold labels, one per line of the title,
\* above its date row
HeaderTexts == {HAgent, HName, HAgNm, HInOut, TBlank}

HeaderLines(texts) ==
  [p \in 1..Len(texts) |-> Lab(<<DigitSeq[p + 1]>>, N50, BoldFont, texts[p])]

HeaderDocs ==
  {HeaderLines(texts) \o <<Lab(N10, N0, NormalFont, TDateLabel),
                           Lab(N10, N50, NormalFont, TStamp)>> :
     texts \in SeqsUpTo(HeaderTexts, MaxHeader)}

\* a report with up to MaxFree labels whose style is not as the others'
StylePool ==
  {[style |-> st, string |-> TTime] :
     st \in {<<"l", "e", "f", "t", ":", "0", "p", "x", ";", " ", "f", "o", "n", "t", ":", "1", "2", "p", "x", " ", "v", "e", "r", "d", "a", "n", "a">>,
             <<"t", "o", "p", ":", "2", "0", "p", "x", ";", " ", "f", "o", "n", "t", ":", "1", "2", "p", "x", " ", "v", "e", "r", "d", "a", "n", "a">>,
             <<"t", "o", "p", ":", " ", "p", "x", ";", " ", "l", "e", "f", "t", ":", " ", "1", "0", "p", "x">>,
             <<"t", "o", "p", ":", " ", "p", "x", ";", " ", "l", "e", "f", "t", ":", " ", "1", "0", "p", "x", ";", " ", "f", "o", "n", "t", ":", "1", "2", "p", "x", " ", "v", "e", "r", "d", "a", "n", "a">>,
             <<"t", "o", "p", ":", "2", "0", "p", "x", ";", " ", "l", "e", "f", "t", ":", "0", "p", "x", ";", " ", "f", "o", "n", "t", ":", "1", "2", "p", "x", " ", "v", "e", "r", "d", "a", "n", "a", ";", " ">>,
             <<"t", "o", "p", ":", "2", "0", "p", "x", ";", " ", "l", "e", "f", "t", ":", "0", "p", "x", ";", " ", "f", "o", "n", "t", ":", "1", "2", "p", "x", " ", "v", "e", "r", "d", "a", "n", "a", ";">>,
             <<"t", "o", "p", ":", "2", "0", "p", "x", ";", " ", "l", "e", "f", "t", ":", "0", "p", "x", ";", " ", "f", "o", "n", "t">>}}
  \cup {[style |-> <<"l", "e", "f", "t", ":", "0", "p", "x">>, string |-> NoneVal]}

StyleDocs == {GridSkeleton \o free : free \in SeqsUpTo(StylePool, MaxFree)}

Init ==
  /\ pc = "cli"
  /\ \/ Label_elets \in GridDocs \cup MetaDocs \cup HeaderDocs /\ useSQL = FALSE
     \/ Label_elets \in StyleDocs /\ useSQL \in BOOLEAN
  /\ pos = 1
  /\ indexed_data = <<>>
  /\ _col_titles = <<>>
  /\ final_col_titles = <<>>
  /\ matrix_dict = <<>>
  /\ sorted_rows_dict = <<>>
  /\ metadata_dict = <<>>
  /\ df1 = EmptyFrame
  /\ exported = "none"
  /\ exc = ""
  /\ log = <<>>
  /\ exit_status = -1

Spec == Init /\ [][Next]_vars

\* ------------------------------------------------------------ the claims
\* the frame of lines 177-192 has been built
FrameBuilt == df1 # EmptyFrame

\* the grid row a row of the frame came from
GridRow(key) == DictGet(sorted_rows_dict, key)

Reverse(q) == [i \in 1..Len(q) |-> q[Len(q) + 1 - i]]

\* a first cell that is blank, all dashes (two or more), or holds a letter
FirstCellInvalid(cell) ==
  \/ cell = <<>>
  \/ Len(cell) >= 2 /\ \A i \in 1..Len(cell) : cell[i] = "-"
  \/ \E i \in 1..Len(cell) : cell[i] \in Alpha

\* a grid row the metadata extractor recognises
IsMetadataRow(val) ==
  \/ Len(val) = 1 /\ LabelMatch(val[1])
  \/ Len(val) > 1 /\ \E c \in 1..Len(val) : LabelMatch(val[c])

\* the labels that have a string, which are the ones line 103 stores
WithString == {i \in 1..Len(Label_elets) : Label_elets[i].string # NoneVal}

\* the spec's data fragments: a string that is not blank, a font that is not bold
DataFragments ==
  {i \in WithString : /\ Strip(Label_elets[i].string) # <<>>
                      /\ ~ReadStyle(Label_elets[i].style).bold}

TopOf(i) == ReadStyle(Label_elets[i].style).coord[1]

\* C1: once the frame is built, its columns are the metadata keys (the last
\* inserted first) followed by the column titles, and every row has exactly
\* len(final_col_titles) + len(metadata_dict) cells.
C1_TableWidth ==
  FrameBuilt =>
    /\ df1.columns = Reverse(DictKeys(metadata_dict)) \o final_col_titles
    /\ \A r \in 1..Len(df1.rows) :
         Len(df1.rows[r].cells) = Len(final_col_titles) + Len(metadata_dict)

C1_Witness ==
  /\ FrameBuilt
  /\ Len(df1.rows) >= 1
  /\ Len(metadata_dict) >= 2
  /\ Len(final_col_titles) = 3

\* C2: no row of the frame comes from a grid row whose first cell is blank,
\* all dashes, or holds a letter.
C2_NoInvalidFirstCell ==
  FrameBuilt =>
    \A r \in 1..Len(df1.rows) :
      ~FirstCellInvalid(GridRow(df1.rows[r].src)[1])

C2_Witness ==
  /\ FrameBuilt
  /\ Len(df1.rows) >= 1
  /\ \E g \in 1..Len(sorted_rows_dict) : sorted_rows_dict[g].v[1] = <<>>
  /\ \E g \in 1..Len(sorted_rows_dict) : sorted_rows_dict[g].v[1] = TDash2
  /\ \E g \in 1..Len(sorted_rows_dict) : ContainsLetter(sorted_rows_dict[g].v[1])

C4_StrictColumns ==
  pc = "meta" =>
    \A g \in 1..Len(matrix_dict) :
      \A i, j \in 1..Len(matrix_dict[g].v) :
        i < j => matrix_dict[g].v[i].coord[2] < matrix_dict[g].v[j].coord[2]

\* C5: no row of the frame comes from a grid row that is a metadata row.
C5_NoMetadataRowInTable ==
  FrameBuilt =>
    \A r \in 1..Len(df1.rows) : ~IsMetadataRow(GridRow(df1.rows[r].src))

\* the fatal conditions of C6 that can be read off the document
LacksCoordinates(i) ==
  CoordinateError(css_to_dict(Label_elets[i].style).d) # ""

NoBoldLabel == \A i \in WithString : ~ReadStyle(Label_elets[i].style).bold

DateErrors == {"KeyError: 'Date'", "ValueError: time data does not match format"}

\* C6: a run that meets a fatal condition (a label with a string whose style
\* has no integer top and left, no bold label, Date absent from the metadata
\* or not a timestamp) ends in failure with nothing exported; put the other
\* way round, a run that ends without failure, or with something exported,
\* met none of them.
C6_NoExportOnFatal ==
  /\ exc \in DateErrors => exported = "none"
  /\ pc = "exited" /\ (exc = "" \/ exported # "none") =>
       /\ \A i \in WithString : ~LacksCoordinates(i)
       /\ ~NoBoldLabel
       /\ DictHas(metadata_dict, DATE)
       /\ DictGet(metadata_dict, DATE)[1] = "datetime"

C6_Witness ==
  /\ pc = "exited"
  /\ exc = "ValueError: invalid literal for int()"
  /\ exported = "none"
  /\ "CRITICAL" \in SeqRange(log)

\* C7: a run whose transform failed is logged and ends with a status that is
\* not 0; status 0 means the transform succeeded.
C7_ExitStatus ==
  pc = "exited" =>
    /\ exc # "" => "CRITICAL" \in SeqRange(log) /\ exit_status # 0
    /\ exit_status = 0 => exc = ""

\* the terms of C8: the longest token list, and the full-length lists
MaxLen == Max({Len(_col_titles[i]) : i \in 1..Len(_col_titles)})

FullLists ==
  SelectSeq(_col_titles, LAMBDA t : Len(t) = MaxLen /\ t # <<<<>>>>)

ExpectedName(k) ==
  IF Len(FullLists) >= 2
  THEN FullLists[1][k] \o <<" ">> \o FullLists[2][k]
  ELSE FullLists[1][k]

\* C8 as stated: the titles are TIME followed by MaxLen names, the k-th made
\* of the k-th tokens of the first two full-length lists.
C8_TitlesOfFirstTwo ==
  pc = "grid" =>
    /\ Len(final_col_titles) = 1 + MaxLen
    /\ final_col_titles[1] = TIME
    /\ \A k \in 1..MaxLen : final_col_titles[k + 1] = ExpectedName(k)

\* C8 amended: as stated when there is a full-length list; when every bold
\* label is blank there is none, and the titles are TIME alone.
C8_TitlesOfFirstTwoOrNone ==
  pc = "grid" =>
    IF Len(FullLists) = 0 THEN final_col_titles = <<TIME>>
    ELSE /\ Len(final_col_titles) = 1 + MaxLen
         /\ final_col_titles[1] = TIME
         /\ \A k \in 1..MaxLen : final_col_titles[k + 1] = ExpectedName(k)

C8_Witness ==
  /\ pc = "grid"
  /\ MaxLen = 2
  /\ Len(FullLists) = 3
  /\ FullLists[3] # FullLists[2]
  /\ FullLists[3] # FullLists[1]

\* the terms of C9: a cell cut at its first colon
FirstColon(cell) == Min({i \in 1..Len(cell) : cell[i] = ":"})

LabelPart(cell) == Strip(SubSeq(cell, 1, FirstColon(cell) - 1))

ValuePart(cell) == Strip(SubSeq(cell, FirstColon(cell) + 1, Len(cell)))

\* the keys the extractor writes for a row
KeysWritten(val) ==
  IF Len(val) = 1
  THEN IF LabelMatch(val[1]) THEN {LabelPart(val[1])} ELSE {}
  ELSE {CollapseSpaces(SubSeq(val[c], 1, Len(val[c]) - 1)) :
          c \in {x \in 1..Len(val) : LabelMatch(val[x])}}

\* C9: a one-cell metadata row records, under the text before its first
\* colon, the whole text after it, further colons included (unless a later
\* row writes the same key).
C9_ValueAfterFirstColon ==
  pc = "timestamp" =>
    \A g \in 1..Len(sorted_rows_dict) :
      LET val == sorted_rows_dict[g].v
      IN (/\ Len(val) = 1
          /\ LabelMatch(val[1])
          /\ \A h \in (g + 1)..Len(sorted_rows_dict) :
               LabelPart(val[1]) \notin KeysWritten(sorted_rows_dict[h].v))
         => /\ DictHas(metadata_dict, LabelPart(val[1]))
            /\ DictGet(metadata_dict, LabelPart(val[1])) = ValuePart(val[1])

\* C10: every grid row that is no metadata row and whose first cell is
\* neither blank, nor all dashes, nor holds a letter is a row of the frame,
\* and the rows of the frame are in ascending order of row coordinate.
C10_NoValidRowLost ==
  FrameBuilt =>
    /\ \A g \in 1..Len(sorted_rows_dict) :
         (/\ ~IsMetadataRow(sorted_rows_dict[g].v)
          /\ ~FirstCellInvalid(sorted_rows_dict[g].v[1]))
         => \E r \in 1..Len(df1.rows) : df1.rows[r].src = sorted_rows_dict[g].k
    /\ \A i, j \in 1..Len(df1.rows) :
         i < j => df1.rows[i].src < df1.rows[j].src

====
